---- MODULE Spec2Model ----
(***************************************************************************)
(* A model of bioseqsee: check_title (common.py), chr2int / chr2norm /     *)
(* int_to_b37chr / int_to_hg19chr and the Bed constructor (bedtool.py).    *)
(*                                                                         *)
(* Python str values are TLA+ strings (a character is a string of length   *)
(* 1), Python lists are sequences, a file object is its text together     *)
(* with a cursor counted in characters.                                    *)
(***************************************************************************)
EXTENDS Integers, Sequences, FiniteSets, TLC

VARIABLES
    call,         \* which entry point this run exercises
    pc,           \* position inside the entry point
    \* ---- check_title: the file object and the arguments
    content,      \* the text of the stream
    fpos,         \* the stream's cursor (characters from the start)
    seekable,     \* FALSE: tell()/seek() raise IOError
    start_pos,    \* the cursor before the call (what the caller saw)
    spec_names,   \* argument spec_names (a sequence of patterns)
    comeback,     \* argument comeback
    min_col_num,  \* argument min_col_num
    \* ---- check_title: locals
    ori_pos, List, list_lower, line, pos, title,
    reads,        \* how many times fileobj.readline() was called
    \* ---- bedtool: the argument, the intermediate text and the outcome
    arg, text, conv, result

vars == << call, pc, content, fpos, seekable, start_pos, spec_names, comeback,
           min_col_num, ori_pos, List, list_lower, line, pos, title, reads,
           arg, text, conv, result >>

titleVars == << content, fpos, seekable, start_pos, spec_names, comeback,
                min_col_num, ori_pos, List, list_lower, line, pos, title,
                reads >>

bedVars == << arg, text, conv, result >>

-----------------------------------------------------------------------------
(* Bounds of the model *)

\* streams of the scanning runs hold at most this many lines
MaxLines == 3
\* title lines of the column runs hold at most this many columns
MaxCols == 4
\* chromosome strings are built from at most this many pieces
MaxPieces == 3
\* Bed inputs hold at most this many fields
MaxFields == 4

-----------------------------------------------------------------------------
(* Python's str and list primitives *)

Ch(s, i) == SubSeq(s, i, i)

Chars(s) == { Ch(s, i) : i \in 1..Len(s) }

Range(f) == { f[i] : i \in DOMAIN f }

\* str.startswith
StartsWith(s, p) == Len(s) >= Len(p) /\ SubSeq(s, 1, Len(p)) = p

\* str.lstrip(chars): drops every leading character that is IN chars
RECURSIVE LStripChars(_, _)
LStripChars(s, chars) ==
    IF Len(s) > 0 /\ Ch(s, 1) \in chars
    THEN LStripChars(SubSeq(s, 2, Len(s)), chars)
    ELSE s

\* str.rstrip(chars)
RECURSIVE RStripChars(_, _)
RStripChars(s, chars) ==
    IF Len(s) > 0 /\ Ch(s, Len(s)) \in chars
    THEN RStripChars(SubSeq(s, 1, Len(s) - 1), chars)
    ELSE s

WhiteSpace == {" ", "\t", "\n", "\r", "\f"}

\* str.strip()
Strip(s) == RStripChars(LStripChars(s, WhiteSpace), WhiteSpace)

UpperLetters == "ABCDEFGHIJKLMNOPQRSTUVWXYZ"
LowerLetters == "abcdefghijklmnopqrstuvwxyz"

\* the letters with their counterparts in the other case
LowerOf ==
    [ c \in Chars(UpperLetters) |->
        Ch(LowerLetters, CHOOSE i \in 1..26 : Ch(UpperLetters, i) = c) ]

UpperOf ==
    [ c \in Chars(LowerLetters) |->
        Ch(UpperLetters, CHOOSE i \in 1..26 : Ch(LowerLetters, i) = c) ]

LowerChar(c) == IF c \in DOMAIN LowerOf THEN LowerOf[c] ELSE c

UpperChar(c) == IF c \in DOMAIN UpperOf THEN UpperOf[c] ELSE c

\* str.lower / str.upper
RECURSIVE Lower(_)
Lower(s) == IF s = "" THEN "" ELSE LowerChar(Ch(s, 1)) \o Lower(SubSeq(s, 2, Len(s)))

RECURSIVE Upper(_)
Upper(s) == IF s = "" THEN "" ELSE UpperChar(Ch(s, 1)) \o Upper(SubSeq(s, 2, Len(s)))

\* the first position of character c in s, 0 when absent
FindChar(s, c) ==
    IF c \in Chars(s) THEN CHOOSE i \in 1..Len(s) :
                              Ch(s, i) = c /\ \A j \in 1..(i - 1) : Ch(s, j) # c
    ELSE 0

\* str.split(sep) for a separator of one character
RECURSIVE Split(_, _)
Split(s, sep) ==
    LET i == FindChar(s, sep)
    IN  IF i = 0 THEN << s >>
        ELSE << SubSeq(s, 1, i - 1) >> \o Split(SubSeq(s, i + 1, Len(s)), sep)

\* str.split(): on runs of whitespace, no empty fields
RECURSIVE SplitWS(_)
SplitWS(s) ==
    LET t == LStripChars(s, WhiteSpace)
        ws == { i \in 1..Len(t) : Ch(t, i) \in WhiteSpace }
        e == IF ws = {} THEN Len(t) + 1
             ELSE CHOOSE i \in ws : \A j \in ws : i <= j
    IN  IF t = "" THEN << >>
        ELSE << SubSeq(t, 1, e - 1) >> \o SplitWS(SubSeq(t, e, Len(t)))

\* list.index(x), zero-based, for an x that occurs in L
Index(L, x) ==
    (CHOOSE i \in 1..Len(L) : L[i] = x /\ \A j \in 1..(i - 1) : L[j] # x) - 1

\* sep.join(L)
RECURSIVE Join(_, _)
Join(L, sep) ==
    IF Len(L) = 0 THEN ""
    ELSE IF Len(L) = 1 THEN L[1]
    ELSE L[1] \o sep \o Join(Tail(L), sep)

\* the concatenation of a sequence of strings
RECURSIVE Concat(_)
Concat(L) == IF Len(L) = 0 THEN "" ELSE L[1] \o Concat(Tail(L))

\* all sequences over S of length lo..hi
SeqsOf(S, lo, hi) == UNION { [1..n -> S] : n \in lo..hi }

\* the value None, kept apart from every index
PyNone == -1

\* Python truthiness of an index-or-None
Truthy(v) == v # PyNone /\ v # 0

-----------------------------------------------------------------------------
(* The file object *)

\* fileobj.readline() at cursor p: up to and including the next newline,
\* or the rest of the text, or '' at end of file
ReadLine(txt, p) ==
    LET rest == SubSeq(txt, p + 1, Len(txt))
        n == FindChar(rest, "\n")
    IN  IF n = 0 THEN rest ELSE SubSeq(rest, 1, n)

-----------------------------------------------------------------------------
(* check_title (common.py) *)

\* the default of argument header_mark
header_mark == "#"

\* the default of argument min_col_num
DefaultMinColNum == 3

\* title = {'.len': int(), '.Column_Names': list(), ...}; the plain keys of
\* the dict (column names and spec_names) are the function `index`
EmptyTitle ==
    [ len |-> 0, Column_Names |-> << >>, column_names |-> << >>,
      samples |-> << >>, header |-> "", index |-> << >> ]

\* d[k] = v
DictSet(d, k, v) == [ x \in (DOMAIN d) \cup {k} |-> IF x = k THEN v ELSE d[x] ]

\* d.update({column: L.index(column) for column in L if column.strip()})
DictUpdateIndices(d, L) ==
    LET keys == { c \in Range(L) : Strip(c) # "" }
    IN  [ x \in (DOMAIN d) \cup keys |-> IF x \in keys THEN Index(L, x) ELSE d[x] ]

\* re.match(name, column) for the patterns used here: literal characters,
\* an optional leading '^' and an optional trailing '$'
ReMatch(name, column) ==
    LET p == IF StartsWith(name, "^") THEN SubSeq(name, 2, Len(name)) ELSE name
        anchored == Len(p) > 0 /\ Ch(p, Len(p)) = "$"
        lit == IF anchored THEN SubSeq(p, 1, Len(p) - 1) ELSE p
    IN  IF anchored THEN column = lit ELSE StartsWith(column, lit)

\* [i.lower().strip() for i in List]
LowerStripAll(L) == [ i \in DOMAIN L |-> Strip(Lower(L[i])) ]

\* line.rstrip('\n').lstrip(header_mark).split('\t')
SplitTitle(ln) ==
    Split(LStripChars(RStripChars(ln, {"\n"}), Chars(header_mark)), "\t")

\* the loop of step 1 without its test for the end of the stream
ScanningPastEnd == Len(List) < min_col_num

\* the condition of the while loop of step 1
Scanning == Len(List) < min_col_num /\ List # << "" >>

\* step 0: initialise, remember the cursor and rewind
CheckTitleStart ==
    /\ call = "check_title" /\ pc = "start"
    /\ title' = EmptyTitle
    /\ ori_pos' = IF seekable THEN fpos ELSE 0
    /\ fpos' = IF seekable THEN 0 ELSE fpos
    /\ List' = << >>
    /\ pc' = "scan"
    /\ UNCHANGED << call, content, seekable, start_pos, spec_names, comeback,
                    min_col_num, list_lower, line, pos >>
    /\ UNCHANGED << reads, bedVars >>

\* step 1: one pass of the while loop
ScanLine ==
    /\ call = "check_title" /\ pc = "scan"
    /\ Scanning
    /\ LET ln == ReadLine(content, fpos)
       IN  /\ line' = ln
           /\ fpos' = fpos + Len(ln)
           /\ List' = SplitTitle(ln)
           /\ list_lower' = LowerStripAll(SplitTitle(ln))
           /\ title' = IF StartsWith(ln, header_mark)
                       THEN [title EXCEPT !.header = @ \o ln]
                       ELSE title
    /\ UNCHANGED << call, pc, content, seekable, start_pos, spec_names,
                    comeback, min_col_num, ori_pos, pos >>
    /\ reads' = reads + 1
    /\ UNCHANGED bedVars

\* step 2, entry: pos = fileobj.tell(); line = fileobj.readline()
\* (tell() raising IOError skips the whole step)
TellAfterTitle ==
    /\ call = "check_title" /\ pc = "scan"
    /\ ~ Scanning
    /\ IF seekable
       THEN LET ln == ReadLine(content, fpos)
            IN  /\ pos' = fpos
                /\ line' = ln
                /\ fpos' = fpos + Len(ln)
                /\ reads' = reads + 1
                /\ pc' = "trail"
       ELSE /\ pc' = "update"
            /\ UNCHANGED << pos, line, fpos, reads >>
    /\ UNCHANGED << call, content, seekable, start_pos, spec_names, comeback,
                    min_col_num, ori_pos, List, list_lower, title >>
    /\ UNCHANGED bedVars

\* step 2: one pass of the while loop over the marked lines beneath
TrailLine ==
    /\ call = "check_title" /\ pc = "trail"
    /\ StartsWith(line, header_mark)
    /\ LET ln == ReadLine(content, fpos)
       IN  /\ title' = [title EXCEPT !.header = @ \o line]
           /\ pos' = fpos
           /\ line' = ln
           /\ fpos' = fpos + Len(ln)
    /\ UNCHANGED << call, pc, content, seekable, start_pos, spec_names,
                    comeback, min_col_num, ori_pos, List, list_lower >>
    /\ reads' = reads + 1
    /\ UNCHANGED bedVars

\* step 2, exit: fileobj.seek(pos, 0)
SeekBack ==
    /\ call = "check_title" /\ pc = "trail"
    /\ ~ StartsWith(line, header_mark)
    /\ fpos' = pos
    /\ pc' = "update"
    /\ UNCHANGED << call, content, seekable, start_pos, spec_names, comeback,
                    min_col_num, ori_pos, List, list_lower, line, pos, title >>
    /\ UNCHANGED << reads, bedVars >>

\* step 3: update the dict 'title'
UpdateTitle ==
    /\ call = "check_title" /\ pc = "update"
    /\ LET t1 == IF List # << "" >>
                 THEN [title EXCEPT !.header = @ \o line,
                                    !.len = Len(List),
                                    !.Column_Names = List,
                                    !.column_names = list_lower]
                 ELSE title
           i1 == DictUpdateIndices(t1.index, List)
           i2 == DictUpdateIndices(i1, list_lower)
       IN  title' = [t1 EXCEPT !.index = i2]
    /\ pc' = "spec"
    /\ UNCHANGED << call, content, fpos, seekable, start_pos, spec_names,
                    comeback, min_col_num, ori_pos, List, list_lower, line, pos >>
    /\ UNCHANGED << reads, bedVars >>

\* step 4: the for loop over spec_names, from name number k on
RECURSIVE SpecNameIndices(_, _, _, _)
SpecNameIndices(idx, names, cols, k) ==
    IF k > Len(names) THEN idx
    ELSE LET name == names[k]
             hits == { i \in 1..Len(cols) : ReMatch(name, cols[i]) }
             first == CHOOSE i \in hits : \A j \in hits : i <= j
             v == IF hits = {} THEN PyNone ELSE Index(cols, cols[first])
         IN  SpecNameIndices(DictSet(idx, name, v), names, cols, k + 1)

FindSpecNames ==
    /\ call = "check_title" /\ pc = "spec"
    /\ title' = [title EXCEPT
                    !.index = SpecNameIndices(@, spec_names, list_lower, 1)]
    /\ pc' = "samples"
    /\ UNCHANGED << call, content, fpos, seekable, start_pos, spec_names,
                    comeback, min_col_num, ori_pos, List, list_lower, line, pos >>
    /\ UNCHANGED << reads, bedVars >>

\* step 5: the samples to the right of the FORMAT column; a KeyError
\* leaves title['.samples'] as it is
SamplesOf(idx, L) ==
    IF "format" \notin DOMAIN idx THEN << >>
    ELSE IF ~ Truthy(idx["format"]) THEN << >>
    ELSE IF "ori_ref" \notin DOMAIN idx THEN << >>
    ELSE IF Truthy(idx["ori_ref"])
         THEN SubSeq(L, idx["format"] + 2, idx["ori_ref"])
         ELSE SubSeq(L, idx["format"] + 2, Len(L))

FindSamples ==
    /\ call = "check_title" /\ pc = "samples"
    /\ title' = [title EXCEPT !.samples = @ \o SamplesOf(title.index, List)]
    /\ pc' = "comeback"
    /\ UNCHANGED << call, content, fpos, seekable, start_pos, spec_names,
                    comeback, min_col_num, ori_pos, List, list_lower, line, pos >>
    /\ UNCHANGED << reads, bedVars >>

\* step 6: go back when asked, and return
ComeBack ==
    /\ call = "check_title" /\ pc = "comeback"
    /\ fpos' = IF ori_pos # 0 /\ comeback THEN ori_pos ELSE fpos
    /\ pc' = "done"
    /\ UNCHANGED << call, content, seekable, start_pos, spec_names, comeback,
                    min_col_num, ori_pos, List, list_lower, line, pos, title >>
    /\ UNCHANGED << reads, bedVars >>

-----------------------------------------------------------------------------
(* Python values and exceptions of bedtool.py *)

PyStr(s) == [ type |-> "str", s |-> s, n |-> 0 ]
PyInt(n) == [ type |-> "int", s |-> "", n |-> n ]
NoneValue == [ type |-> "None", s |-> "", n |-> 0 ]

\* a raised exception of class e with message msg
Raise(e, msg) == [ type |-> e, s |-> msg, n |-> 0 ]

IsRaised(v) == v.type \notin { "str", "int", "None", "Bed" }

Digits == "0123456789"

IsDigits(s) == Len(s) > 0 /\ \A i \in 1..Len(s) : Ch(s, i) \in Chars(Digits)

DigitValue(c) == (CHOOSE i \in 1..10 : Ch(Digits, i) = c) - 1

RECURSIVE DecimalValue(_)
DecimalValue(s) ==
    IF s = "" THEN 0
    ELSE 10 * DecimalValue(SubSeq(s, 1, Len(s) - 1)) + DigitValue(Ch(s, Len(s)))

\* int(s) for a str: surrounding whitespace and one sign are accepted, then
\* decimal digits only (the inputs of this model hold no '_' at this point)
IntOfStr(s) ==
    LET t == Strip(s)
        signed == Len(t) > 0 /\ Ch(t, 1) \in { "+", "-" }
        body == IF signed THEN SubSeq(t, 2, Len(t)) ELSE t
    IN  IF ~ IsDigits(body) THEN Raise("ValueError", "invalid literal for int()")
        ELSE IF signed /\ Ch(t, 1) = "-" THEN PyInt(0 - DecimalValue(body))
        ELSE PyInt(DecimalValue(body))

\* int(v) for a str or an int
IntOf(v) == IF v.type = "int" THEN v ELSE IntOfStr(v.s)

\* str(n) for an int
RECURSIVE StrOfNat(_)
StrOfNat(n) ==
    IF n < 10 THEN Ch(Digits, n + 1)
    ELSE StrOfNat(n \div 10) \o Ch(Digits, (n % 10) + 1)

StrOfInt(n) == IF n < 0 THEN "-" \o StrOfNat(0 - n) ELSE StrOfNat(n)

-----------------------------------------------------------------------------
(* chr2int, chr2norm, int_to_b37chr, int_to_hg19chr (bedtool.py) *)

ChromError == Raise("ValueError", "invalid literal for a chromosome")

NotAChromosome == Raise("ValueError", "[ERROR] the input was not a chromosome!")

\* chrom.strip() alone, the prefix left in place
StripOnly(s) == Strip(s)

\* chrom.strip().lstrip('chr'): lstrip takes a SET of characters
StripChr(s) == LStripChars(Strip(s), Chars("chr"))

\* the try block: 0 < int(chrom) < 26, any ValueError is raised anew
ChromNumber(v) ==
    LET k == IntOf(v)
    IN  IF IsRaised(k) THEN ChromError
        ELSE IF 0 < k.n /\ k.n < 26 THEN PyInt(k.n)
        ELSE ChromError

chr2int(chrom) ==
    IF chrom.type = "str"
    THEN LET c == StripChr(chrom.s)
         IN  IF c = "X" THEN PyInt(23)
             ELSE IF c = "Y" THEN PyInt(24)
             ELSE IF Upper(c) \in { "M", "MT", "MITO", "MITOCHONDRIA" } THEN PyInt(25)
             ELSE IF Upper(c) = "HSCHR6_MHC_COX" THEN PyInt(6)
             ELSE IF "_" \in Chars(c) THEN ChromNumber(PyStr(Split(c, "_")[1]))
             ELSE ChromNumber(PyStr(c))
    ELSE ChromNumber(chrom)

int_to_b37chr(chrom) ==
    IF 0 < chrom /\ chrom < 23 THEN PyStr(StrOfInt(chrom))
    ELSE IF chrom = 23 THEN PyStr("X")
    ELSE IF chrom = 24 THEN PyStr("Y")
    ELSE IF chrom = 25 THEN PyStr("MT")
    ELSE NotAChromosome

int_to_hg19chr(chrom) ==
    IF 0 < chrom /\ chrom < 23 THEN PyStr("chr" \o StrOfInt(chrom))
    ELSE IF chrom = 23 THEN PyStr("chrX")
    ELSE IF chrom = 24 THEN PyStr("chrY")
    ELSE IF chrom = 25 THEN PyStr("chrM")
    ELSE NotAChromosome

chr2norm(chrom, convention) ==
    LET k == chr2int(chrom)
    IN  IF IsRaised(k) THEN k
        ELSE IF convention = "b37" THEN int_to_b37chr(k.n)
        ELSE IF convention = "hg19" THEN int_to_hg19chr(k.n)
        ELSE Raise("AssertionError",
                   "[ERROR] an invalid convention for the chromosome notation.")

NoTitleCall ==
    /\ content = "" /\ fpos = 0 /\ seekable = TRUE /\ start_pos = 0
    /\ spec_names = << >> /\ comeback = FALSE /\ min_col_num = 0
    /\ ori_pos = 0 /\ List = << >> /\ list_lower = << >>
    /\ line = "" /\ pos = 0 /\ title = << >> /\ reads = 0

\* the pieces the chromosome strings are made of
ChromPieces ==
    { "chr", "c", "h", "r", "0", "1", "2", "6", "X", "MT", "_", " " }

\* the alternate-locus name, alone and with a prefix or a suffix
LocusNames ==
    { "HSCHR6_MHC_COX", "chrHSCHR6_MHC_COX", "hschr6_mhc_cox", "HSCHR6_MHC_COX_1" }

ChromStrings ==
    { Concat(ps) : ps \in SeqsOf(ChromPieces, 0, MaxPieces) } \cup LocusNames

ChromInputs ==
    { PyStr(s) : s \in ChromStrings } \cup { PyInt(n) : n \in (0 - 2)..28 }

InitChr ==
    /\ call = "chr" /\ pc = "start"
    /\ arg \in ChromInputs
    /\ text = NoneValue /\ conv = "" /\ result = NoneValue
    /\ NoTitleCall

\* text = int_to_hg19chr(arg)
IntToHg19chr ==
    /\ call = "chr" /\ pc = "start" /\ arg.type = "int"
    /\ text' = int_to_hg19chr(arg.n)
    /\ conv' = "hg19"
    /\ pc' = IF IsRaised(int_to_hg19chr(arg.n)) THEN "done" ELSE "text"
    /\ result' = IF IsRaised(int_to_hg19chr(arg.n)) THEN int_to_hg19chr(arg.n)
                 ELSE result
    /\ UNCHANGED << call, arg, titleVars >>

\* text = int_to_b37chr(arg)
IntToB37chr ==
    /\ call = "chr" /\ pc = "start" /\ arg.type = "int"
    /\ text' = int_to_b37chr(arg.n)
    /\ conv' = "b37"
    /\ pc' = IF IsRaised(int_to_b37chr(arg.n)) THEN "done" ELSE "text"
    /\ result' = IF IsRaised(int_to_b37chr(arg.n)) THEN int_to_b37chr(arg.n)
                 ELSE result
    /\ UNCHANGED << call, arg, titleVars >>

\* result = chr2int(text), the way back of a round trip
Chr2intOfText ==
    /\ call = "chr" /\ pc = "text"
    /\ result' = chr2int(text)
    /\ pc' = "done"
    /\ UNCHANGED << call, arg, text, conv, titleVars >>

\* result = chr2int(arg)
Chr2int ==
    /\ call = "chr" /\ pc = "start"
    /\ result' = chr2int(arg)
    /\ conv' = "int"
    /\ pc' = "done"
    /\ UNCHANGED << call, arg, text, titleVars >>

\* result = chr2norm(arg, convention)
Chr2norm ==
    /\ call = "chr" /\ pc = "start"
    /\ \E convention \in { "b37", "hg19", "hg38" } :
          /\ result' = chr2norm(arg, convention)
          /\ conv' = "norm:" \o convention
    /\ pc' = "done"
    /\ UNCHANGED << call, arg, text, titleVars >>

NextChr == IntToHg19chr \/ IntToB37chr \/ Chr2intOfText \/ Chr2int \/ Chr2norm

SpecChr == InitChr /\ [][NextChr]_vars

-----------------------------------------------------------------------------
(* Bed.__init__ (bedtool.py) *)

\* Bed.raise_input_error(): the static method is declared with a parameter
\* (self) and called with none, so the call itself raises TypeError before
\* the ValueError of its body can be raised
raise_input_error ==
    Raise("TypeError", "raise_input_error() missing 1 required positional argument: 'self'")

\* sys.stderr.write(...): bedtool.py never imports sys
stderr_write == Raise("NameError", "name 'sys' is not defined")

\* a constructed Bed: chrom, start, end and the tuple behind __iter__
BedObject(chrom, start, end, bed) ==
    [ type |-> "Bed", chrom |-> chrom, start |-> start, end |-> end, bed |-> bed ]

\* Bed(): the null object
NullBed == BedObject(NoneValue, NoneValue, NoneValue, << >>)

\* the fields past the third, tuple(splitted[3:])
Extras(splitted) == [ i \in 1..(Len(splitted) - 3) |-> PyStr(splitted[i + 3]) ]

\* the statements after the branches: self.start, self.end, self.__bed
Finish(chrom, start, end, splitted) ==
    BedObject(chrom, start, end, << chrom, start, end >> \o Extras(splitted))

\* the branches on len(splitted)
BedOfFields(splitted, warning) ==
    IF Len(splitted) = 0 THEN NullBed
    ELSE IF Len(splitted) = 2
    THEN LET start == IntOfStr(splitted[1])
             end == IntOfStr(splitted[2])
         IN  IF IsRaised(start) \/ IsRaised(end) THEN raise_input_error
             ELSE IF 0 < start.n /\ start.n < 30 /\ warning THEN stderr_write
             ELSE Finish(NoneValue, start, end, splitted)
    ELSE IF Len(splitted) > 2
    THEN LET start == IntOfStr(splitted[2])
             end == IntOfStr(splitted[3])
             chrom == chr2norm(PyStr(splitted[1]), "b37")
         IN  IF IsRaised(start) \/ IsRaised(end) THEN raise_input_error
             ELSE IF IsRaised(chrom) THEN chrom
             ELSE Finish(chrom, start, end, splitted)
    ELSE raise_input_error

\* Bed(obj, warning): obj is a str (a line), an iterable of str fields, or
\* something else
Bed(obj, warning) ==
    IF obj.type = "str" THEN BedOfFields(SplitWS(RStripChars(obj.s, {"\n"})), warning)
    ELSE IF obj.type = "list" THEN BedOfFields(obj.fields, warning)
    ELSE raise_input_error

\* the fields the Bed inputs are made of
BedFields == { "5", "100", "30", "0", "x", "chr1", "chrZ" }

FieldLists == SeqsOf(BedFields, 0, MaxFields)

BedInputs ==
    { [ type |-> "list", fields |-> fs, s |-> "" ] : fs \in FieldLists }
      \cup { [ type |-> "str", fields |-> << >>, s |-> Join(fs, sep) \o "\n" ] :
                fs \in FieldLists, sep \in { "\t", " " } }
      \cup { [ type |-> "int", fields |-> << >>, s |-> "" ] }

InitBed ==
    /\ call = "Bed" /\ pc = "start"
    /\ arg \in [ obj : BedInputs, warning : BOOLEAN ]
    /\ text = NoneValue /\ conv = "" /\ result = NoneValue
    /\ NoTitleCall

\* result = Bed(obj, warning)
BedInit ==
    /\ call = "Bed" /\ pc = "start"
    /\ result' = Bed(arg.obj, arg.warning)
    /\ pc' = IF IsRaised(Bed(arg.obj, arg.warning)) THEN "raised" ELSE "built"
    /\ UNCHANGED << call, arg, text, conv, titleVars >>

\* tuple(iter(bed)), for a Bed that was built
BedIter ==
    /\ call = "Bed" /\ pc = "built"
    /\ text' = result.bed
    /\ pc' = "done"
    /\ UNCHANGED << call, arg, conv, result, titleVars >>

NextBed == BedInit \/ BedIter

SpecBed == InitBed /\ [][NextBed]_vars

\* the fields Bed.__init__ sees for the argument of this run
SplittedOf(obj) ==
    IF obj.type = "str" THEN SplitWS(RStripChars(obj.s, {"\n"})) ELSE obj.fields

-----------------------------------------------------------------------------
(* What the description of check_title says of a stream *)

\* the lines of a text, as successive readline() calls return them
RECURSIVE LinesOf(_)
LinesOf(txt) ==
    IF txt = "" THEN << >>
    ELSE LET l == ReadLine(txt, 0)
         IN  << l >> \o LinesOf(SubSeq(txt, Len(l) + 1, Len(txt)))

\* the text check_title scans: all of a seekable stream, the rest of another
ScanText ==
    IF seekable THEN content ELSE SubSeq(content, start_pos + 1, Len(content))

ScanTextLines == LinesOf(ScanText)

\* a line with at least min_col_num tab-separated fields after its newline
\* and leading header marks are removed; a line left empty has no field
IsTitleLine(ln) ==
    LET fields == SplitTitle(ln)
    IN  fields # << "" >> /\ Len(fields) >= min_col_num

Marked(ln) == StartsWith(ln, header_mark)

\* the number of the first title line of ls, 0 when there is none
TitleNo(ls) ==
    LET T == { i \in 1..Len(ls) : IsTitleLine(ls[i]) }
    IN  IF T = {} THEN 0 ELSE CHOOSE i \in T : \A j \in T : i <= j

\* the number of the last marked line directly beneath line t (t if none)
TrailEnd(ls, t) ==
    CHOOSE k \in t..Len(ls) :
        /\ \A j \in (t + 1)..k : Marked(ls[j])
        /\ (k < Len(ls) => ~ Marked(ls[k + 1]))

\* the marked lines among the first n lines of ls, concatenated
RECURSIVE MarkedText(_, _)
MarkedText(ls, n) ==
    IF n = 0 THEN ""
    ELSE MarkedText(ls, n - 1) \o (IF Marked(ls[n]) THEN ls[n] ELSE "")

\* the marked lines above the title line, the title line, the marked lines
\* directly beneath it
ExpectedHeader(ls) ==
    LET t == TitleNo(ls)
    IN  MarkedText(ls, t - 1) \o ls[t] \o Concat(SubSeq(ls, t + 1, TrailEnd(ls, t)))

\* the cursor just after the marked lines beneath the title line
ExpectedPos(ls) == Len(Concat(SubSeq(ls, 1, TrailEnd(ls, TitleNo(ls)))))

Returned == call = "check_title" /\ pc = "done"

-----------------------------------------------------------------------------
(* The runs of check_title *)

\* the lines the scanned streams are made of: a blank line, a line of the
\* header mark alone, a comment, a line of two fields, a line of three
\* fields and a marked line of three fields
ScanLines ==
    { "\n", "#\n", "#c\n", "a\tb\n", "N\tA\tG\n", "#N\tA\tG\n" }

ScanStreams == { Concat(ls) : ls \in SeqsOf(ScanLines, 0, MaxLines) }

\* the cursors a caller that reads whole lines can leave the stream at:
\* the start, the end, and just after each newline
LineStarts(txt) ==
    {0, Len(txt)} \cup { p \in 1..Len(txt) : Ch(txt, p) = "\n" }

\* the column names the title lines of the column runs are made of
ColumnNames == { "x", "FORMAT", "ori_ref", "s1" }

ColumnStreams ==
    { Join(cols, "\t") \o tail :
        cols \in SeqsOf(ColumnNames, DefaultMinColNum, MaxCols),
        tail \in { "\n", "\n#c\nd\te\tf\n" } }

SpecNameChoices ==
    { << >>, << "format" >>, << "ori_ref" >>, << "format", "ori_ref" >>,
      << "^s1$", "for" >> }

NoBedCall == arg = << >> /\ text = << >> /\ conv = "" /\ result = << >>

InitLocals ==
    /\ ori_pos = 0 /\ List = << >> /\ list_lower = << >>
    /\ line = "" /\ pos = 0 /\ title = EmptyTitle /\ reads = 0

\* a stream of few simple lines, with the cursor at a line start, and any
\* arguments; Only(txt, p, sk, n) selects the streams of the run
InitScanOf(Only(_, _, _, _)) ==
    /\ call = "check_title" /\ pc = "start"
    /\ content \in ScanStreams
    /\ fpos \in LineStarts(content)
    /\ start_pos = fpos
    /\ seekable \in BOOLEAN
    /\ min_col_num \in 1..DefaultMinColNum
    /\ Only(content, fpos, seekable, min_col_num)
    /\ comeback \in BOOLEAN
    /\ spec_names = << >>
    /\ InitLocals
    /\ NoBedCall

AnyStream(txt, p, sk, n) == TRUE

InitScan == InitScanOf(AnyStream)

\* a stream that starts with a title line of many columns
InitColumns ==
    /\ call = "check_title" /\ pc = "start"
    /\ content \in ColumnStreams
    /\ fpos = 0
    /\ start_pos = fpos
    /\ seekable = TRUE
    /\ comeback = FALSE
    /\ min_col_num = DefaultMinColNum
    /\ spec_names \in SpecNameChoices
    /\ InitLocals
    /\ NoBedCall

Init == InitScan \/ InitColumns

Next ==
    \/ CheckTitleStart
    \/ ScanLine
    \/ TellAfterTitle
    \/ TrailLine
    \/ SeekBack
    \/ UpdateTitle
    \/ FindSpecNames
    \/ FindSamples
    \/ ComeBack

Spec == Init /\ [][Next]_vars

\* the runs of check_title on the streams that hold no title line
NoTitleLine(txt, p, sk, n) ==
    LET ls == LinesOf(IF sk THEN txt ELSE SubSeq(txt, p + 1, Len(txt)))
    IN  \A i \in 1..Len(ls) :
            LET fields == SplitTitle(ls[i])
            IN  fields = << "" >> \/ Len(fields) < n

InitNoTitle == InitScanOf(NoTitleLine)

SpecNoTitle == InitNoTitle /\ [][Next]_vars

-----------------------------------------------------------------------------
(* Properties of check_title *)

\* C1: on a seekable stream with a title line, '.header' is the marked lines
\* above the title line, then the title line once, then the marked lines
\* directly beneath it, and nothing else (no data line).
C1_HeaderText ==
    (Returned /\ seekable /\ TitleNo(LinesOf(content)) # 0)
        => title.header = ExpectedHeader(LinesOf(content))

\* C2: the title line is the first line of the stream with at least
\* min_col_num fields, whatever comes before it; '.Column_Names' is its
\* field list and '.len' the number of its fields.
C2_FirstTitleLine ==
    (Returned /\ seekable /\ TitleNo(LinesOf(content)) # 0)
        => LET ls == LinesOf(content)
           IN  /\ title.Column_Names = SplitTitle(ls[TitleNo(ls)])
               /\ title.len = Len(SplitTitle(ls[TitleNo(ls)]))

\* C3: without comeback, a seekable stream with a title line is left just
\* after the marked lines directly beneath the title line, so that the next
\* line read is the first data line.
C3_CursorAfterHeader ==
    (Returned /\ seekable /\ ~ comeback /\ TitleNo(LinesOf(content)) # 0)
        => fpos = ExpectedPos(LinesOf(content))

\* When the scan of step 1 does stop on a title line, step 2 leaves the
\* cursor just after the marked lines beneath it.
CursorAfterFoundTitle ==
    (Returned /\ seekable /\ ~ comeback /\ title.len > 0)
        => fpos = ExpectedPos(LinesOf(content))

\* C4: with comeback=True a seekable stream is left where it was before the
\* call, whatever that position was.
C4_ComebackRestores ==
    (Returned /\ seekable /\ comeback) => fpos = start_pos

\* C5: with a column named 'format' (in any case) at a non-zero index,
\* '.samples' is the columns after it up to the end when there is no
\* 'ori_ref' column, and the columns strictly between the two when there is
\* one, for every spec_names.
C5_Samples ==
    (Returned /\ seekable /\ TitleNo(LinesOf(content)) # 0)
        => LET ls == LinesOf(content)
               cols == SplitTitle(ls[TitleNo(ls)])
               low == LowerStripAll(cols)
               fi == Index(low, "format")
           IN  ("format" \in Range(low) /\ fi # 0)
                 => IF "ori_ref" \in Range(low)
                    THEN title.samples = SubSeq(cols, fi + 2, Index(low, "ori_ref"))
                    ELSE title.samples = SubSeq(cols, fi + 2, Len(cols))

\* C6: on a stream without a title line check_title terminates with a
\* column count of 0 and empty lists of column names: its two loops call
\* readline() at most once per line of the stream and twice at its end (the
\* rest of the function is straight-line code), and what it returns has
\* '.len' 0 and no column names.
C6_NoTitleTerminates ==
    (call = "check_title" /\ TitleNo(ScanTextLines) = 0)
        => /\ reads <= Len(ScanTextLines) + 2
           /\ (pc = "done" => /\ title.len = 0
                              /\ title.Column_Names = << >>
                              /\ title.column_names = << >>)

\* C6 happens: a stream of lines, none of them a title line, was read to
\* its end and check_title returned
C6_Witness ==
    /\ Returned
    /\ TitleNo(ScanTextLines) = 0
    /\ Len(ScanTextLines) >= 2
    /\ reads >= 3
    /\ fpos = Len(content)

-----------------------------------------------------------------------------
(* Properties of the chromosome functions *)

\* C7: for every n in 1..25, chr2int(int_to_hg19chr(n)) = n and
\* chr2int(int_to_b37chr(n)) = n.
C7_RoundTrip ==
    (call = "chr" /\ pc = "done" /\ conv \in { "hg19", "b37" }
        /\ arg.n \in 1..25)
        => result = PyInt(arg.n)

\* C7 happens: 25 went to 'chrM' and came back as 25
C7_Witness ==
    /\ call = "chr" /\ pc = "done" /\ conv = "hg19"
    /\ arg = PyInt(25) /\ text = PyStr("chrM") /\ result = PyInt(25)

\* what is left of s after its whitespace is trimmed and at most one
\* leading "chr" is removed
ExactPrefixRemoved(s) ==
    IF StartsWith(Strip(s), "chr") THEN SubSeq(Strip(s), 4, Len(Strip(s)))
    ELSE Strip(s)

\* the part of s before its first underscore
BeforeUnderscore(s) == Split(s, "_")[1]

\* the strings C8 accepts
AcceptedChromosome(s) ==
    LET r == ExactPrefixRemoved(s)
    IN  \/ r \in { "X", "Y", "HSCHR6_MHC_COX" }
        \/ Upper(r) \in { "M", "MT", "MITO", "MITOCHONDRIA" }
        \/ /\ ~ IsRaised(IntOfStr(BeforeUnderscore(r)))
           /\ IntOfStr(BeforeUnderscore(r)).n \in 1..25

\* C8: chr2int on a string removes at most one exact leading "chr" and
\* accepts the rest only if it is X, Y, a mitochondrial alias,
\* HSCHR6_MHC_COX or, cut at its first underscore, an integer in 1..25;
\* every other string ('chrchr1', 'rc1', 'hh7') raises the
\* invalid-chromosome error.
C8_ExactPrefixOnly ==
    (call = "chr" /\ pc = "done" /\ conv = "int" /\ arg.type = "str")
        => IF AcceptedChromosome(arg.s)
           THEN result.type = "int"
           ELSE result = ChromError

-----------------------------------------------------------------------------
(* Properties of Bed *)

BedValueError ==
    Raise("ValueError", "[ERROR] the input cannot be converted to a Bed object!")

\* the start and end fields of splitted are not both integers
BadCoordinates(splitted) ==
    IF Len(splitted) = 2
    THEN IsRaised(IntOfStr(splitted[1])) \/ IsRaised(IntOfStr(splitted[2]))
    ELSE IsRaised(IntOfStr(splitted[2])) \/ IsRaised(IntOfStr(splitted[3]))

\* C9: a Bed from exactly 1 field, or from 2 or more fields whose start or
\* end is no integer, fails with the ValueError of Bed.raise_input_error
\* and with no other error.
C9_InvalidInterval ==
    (call = "Bed" /\ pc # "start" /\ arg.obj.type \in { "str", "list" }
        /\ \/ Len(SplittedOf(arg.obj)) = 1
           \/ Len(SplittedOf(arg.obj)) >= 2 /\ BadCoordinates(SplittedOf(arg.obj)))
        => result = BedValueError

\* C10: a Bed from exactly 2 integer fields is always built, with no
\* chromosome, start the first field and end the second, no extra field,
\* with or without the warning option and whatever start is.
C10_TwoFields ==
    (call = "Bed" /\ pc # "start" /\ arg.obj.type \in { "str", "list" }
        /\ Len(SplittedOf(arg.obj)) = 2
        /\ ~ BadCoordinates(SplittedOf(arg.obj)))
        => LET start == IntOfStr(SplittedOf(arg.obj)[1])
               end == IntOfStr(SplittedOf(arg.obj)[2])
           IN  result = BedObject(NoneValue, start, end, << NoneValue, start, end >>)

====
